---- MODULE Spec2Model ----
(***************************************************************************)
(* One Viewport of the RealDicomViewer (src/unnamed/part_000, lines        *)
(* 145-386): its React state, its three effects, the wheel / slider /      *)
(* play-pause handlers, the two chained fetches of loadDicomImages and the  *)
(* image loads of renderCurrentImage.  Then the Index page with the         *)
(* FileUploader (part_000 lines 8-106, src/components/FileUploader.tsx),    *)
(* and the grid of four Viewports (part_000 lines 388-474).                 *)
(*                                                                          *)
(* How React is modelled.  The state variables (isLoading, images, ...)    *)
(* hold the component state with every queued update applied, in order.    *)
(* The record c holds what the last committed render saw: the closures of  *)
(* handleWheel and of the interval callback read images.length from that   *)
(* render, not from the queue.  Updates made from a promise continuation,  *)
(* a timer callback or a wheel event are rendered in a later task, so any  *)
(* other task may run before Commit; updates made from a click or a change *)
(* event, and a change of the studyUid prop, are rendered with their       *)
(* effects in the same step.  A state update on an unmounted component is  *)
(* dropped by React.                                                        *)
(*                                                                          *)
(* zoom is counted in tenths (1.0 is 10), currentImageIndex is 0-based as  *)
(* in the code, sequences are 1-based as in TLA+.                          *)
(***************************************************************************)
EXTENDS Integers, Sequences, FiniteSets, TLC

\* ---------------------------------------------------------------- bounds
NumStudies == 2
MaxImages == 3
MaxLoads == 1
MaxAssets == 2
MaxInstances == 3
MaxInstanceNumber == 2
MaxUploads == 2
MaxHeld == 3
MaxPick == 2
GridImages == 2
GridZoomSpan == 1
MaxZoomed == 1
MaxPlaceholders == 1
WheelZoomSpan == 2
MaxOverlap == 2
SimViews == {"axial", "3d"}

\* ------------------------------------------------------ program constants
\* useState(1), Math.max(0.1, ...), Math.min(5, ...): in tenths
DefaultZoom == 10
ZoomMin == 1
ZoomMax == 50

\* Math.min(prev + Math.random() * 20, 90), setUploadProgress(100)
ProgressCap == 90
ProgressDone == 100

Studies == 1..NumStudies
Views == {"axial", "3d"}
RadiographyTypes == {"cbct", "panoramic", "intraoral", "cephalometric"}
FileTypes == {"image", "mask"}
GridViews == {"axial", "coronal", "sagittal", "3d"}

\* the simulated Viewport: useState(50), % 100, Math.min(99, ...)
InitialSlice == 50
SliceCount == 100
LastSlice == 99

VARIABLES
    mounted,            \* the Viewport instance is mounted
    view,               \* prop view
    studyUid,           \* prop studyUid
    isLoading,          \* useState(true)
    images,             \* useState<DicomImage[]>([])
    currentImageIndex,  \* useState(0)
    isPlaying,          \* useState(false)
    zoom,               \* useState(1), in tenths
    pan,                \* useState({x: 0, y: 0})
    loads,              \* calls of loadDicomImages still awaiting a fetch
    timers,             \* active setInterval timers: the images.length each closed over
    assets,             \* Image() loads in flight, issued by renderCurrentImage
    surface,            \* what the canvas element last created for the viewport shows
    c,                  \* what the last committed render saw
    imagesSet,          \* setImages was called since the last commit
    lastEvent,          \* name of the last handler that ran (history only)
    instancesData,      \* the metadata answer the stored images were mapped from (history only)
    \* Index page and FileUploader
    currentStep,        \* useState<'upload' | 'viewer'>('upload')
    studyId,            \* useState<string>(''): 0 is the empty string
    uploadedFiles,      \* useState<UploadedFile[]>([]): the type of each held file
    radiographyType,    \* useState<string>('')
    isUploading,        \* useState(false)
    uploadProgress,     \* useState(0)
    uploads,            \* the calls of startUpload that issued the POST
    progressTimers,     \* active progress intervals
    uploadEvent,        \* name of the last uploader or page handler (history only)
    \* RealDicomViewer: the grid of four Viewports
    activeViewport,     \* useState<string>('axial')
    panels,             \* the state of the Viewport of each view
    \* the simulated DicomViewer
    simViewports,       \* the state of the simulated Viewport of each view
    simEvent            \* name of the last handler of a simulated Viewport (history only)

viewportVars == <<mounted, view, studyUid, isLoading, images, currentImageIndex,
                  isPlaying, zoom, pan, loads, timers, assets, surface, c, imagesSet,
                  lastEvent, instancesData>>

uploadVars == <<currentStep, studyId, uploadedFiles, radiographyType, isUploading,
                uploadProgress, uploads, progressTimers, uploadEvent>>

gridVars == <<activeViewport, panels>>

simVars == <<simViewports, simEvent>>

vars == <<mounted, view, studyUid, isLoading, images, currentImageIndex, isPlaying,
          zoom, pan, loads, timers, assets, surface, c, imagesSet, lastEvent,
          instancesData, currentStep, studyId, uploadedFiles, radiographyType, isUploading,
          uploadProgress, uploads, progressTimers, uploadEvent,
          activeViewport, panels, simViewports, simEvent>>

\* ------------------------------------------------------------- helpers
Min(a, b) == IF a < b THEN a ELSE b
Max(a, b) == IF a > b THEN a ELSE b

RemoveAt(s, i) == [j \in 1..(Len(s) - 1) |-> IF j < i THEN s[j] ELSE s[j + 1]]

NoImage == [study |-> 0, imageId |-> 0, instanceNumber |-> 0]
NoSurface == [kind |-> "none", img |-> NoImage]
Blank == [kind |-> "blank", img |-> NoImage]
Placeholder == [kind |-> "placeholder", img |-> NoImage]
Drawn(img) == [kind |-> "image", img |-> img]

\* ------------------------------------------------- loadDicomImages, pure part
\* instance['00200013']?.Value[0] || index + 1   (index is 0-based, i is index + 1)
InstanceNumberOf(inst, i) ==
    IF inst.Value = <<>> \/ inst.Value[1] = 0 THEN i ELSE inst.Value[1]

MapInstances(study, data) ==
    [i \in 1..Len(data) |->
        [study |-> study, imageId |-> data[i].id,
         instanceNumber |-> InstanceNumberOf(data[i], i)]]

\* Array.prototype.sort is stable: an element goes after the elements that
\* compare lower or equal.
InsertSorted(s, x) ==
    LET k == Cardinality({j \in 1..Len(s) : s[j].instanceNumber <= x.instanceNumber})
    IN  SubSeq(s, 1, k) \o <<x>> \o SubSeq(s, k + 1, Len(s))

RECURSIVE SortFrom(_, _)
SortFrom(sorted, rest) ==
    IF rest = <<>> THEN sorted
    ELSE SortFrom(InsertSorted(sorted, Head(rest)), Tail(rest))

NoSort(s) == s

\* dicomImages.sort((a, b) => a.instanceNumber - b.instanceNumber)
SortByInstanceNumber(s) == SortFrom(<<>>, s)

FirstIndex(n) == 0

\* Math.floor(dicomImages.length / 2)
MiddleIndex(n) == n \div 2

\* ----------------------------------------------------- handlers, pure part
\* setZoom(prev => Math.max(0.1, Math.min(5, prev + delta * 0.1)))
ZoomStepUnclamped(prev, delta) == prev + delta

ZoomStep(prev, delta) == Max(ZoomMin, Min(ZoomMax, prev + delta))

\* Math.max(0, Math.min(images.length - 1, prev + delta)), images.length of the closure
ScrubStep(prev, delta, len) == Max(0, Min(len - 1, prev + delta))

\* setCurrentImageIndex(prev => (prev + 1) % images.length), images.length of the closure
NextFrame(prev, len) == (prev + 1) % len

\* setIsPlaying(!isPlaying)
TogglePlaying(playing) == ~playing

\* the play/pause button and the slice slider are rendered
ControlsShown == view # "3d" /\ c.len > 1

\* the canvas of the committed render is in the document
CanvasShown == ~c.loading

\* ------------------------------------------------------------- effects
\* useEffect(..., [isPlaying, view, images.length]): when a dependency changed,
\* the previous effect's cleanup (clearInterval) runs, then the effect body.
PlaybackEffectLeaky(old, changed, playing, len) ==
    IF ~changed THEN old
    ELSE IF playing /\ view # "3d" /\ len > 1 THEN Append(old, len) ELSE old

PlaybackEffectNoCleanup(old, changed, playing, len) ==
    IF ~changed THEN old
    ELSE IF playing /\ view # "3d" /\ len > 1 THEN <<len>> ELSE old

PlaybackEffectAnySequence(old, changed, playing, len) ==
    IF ~changed THEN old
    ELSE IF playing /\ view # "3d" /\ len > 0 THEN <<len>> ELSE <<>>

PlaybackEffect(old, changed, playing, len) ==
    IF ~changed THEN old
    ELSE IF playing /\ view # "3d" /\ len > 1 THEN <<len>> ELSE <<>>

Detach(as) == [i \in 1..Len(as) |-> [as[i] EXCEPT !.live = FALSE]]

\* useEffect(..., [images, currentImageIndex, zoom, pan]) and renderCurrentImage up
\* to img.src = currentImage.url.  images[currentImageIndex] is undefined for an
\* index out of range: currentImage.url throws and the catch logs it.
RenderIssued(imgSet, imgs, idx, zm, loading) ==
    /\ imgSet \/ idx # c.index \/ zm # c.zoom
    /\ Len(imgs) > 0
    /\ ~loading
    /\ idx \in 0..(Len(imgs) - 1)

\* One commit of the component with state (imgs, idx, zm, loading, playing), and
\* its effects.  The canvas is inside the isLoading ternary: it is replaced by the
\* spinner while loading and created anew afterwards.
Effects(imgSet, imgs, idx, zm, loading, playing) ==
    LET gone == loading /\ ~c.loading
        made == ~loading /\ c.loading
        kept == IF gone \/ made THEN Detach(assets) ELSE assets
    IN  /\ c' = [len |-> Len(imgs), index |-> idx, zoom |-> zm,
                 loading |-> loading, playing |-> playing]
        /\ timers' = PlaybackEffect(timers,
                        playing # c.playing \/ Len(imgs) # c.len, playing, Len(imgs))
        /\ assets' = IF RenderIssued(imgSet, imgs, idx, zm, loading)
                     THEN Append(kept, [img |-> imgs[idx + 1], live |-> TRUE])
                     ELSE kept
        /\ surface' = IF gone THEN NoSurface ELSE IF made THEN Blank ELSE surface
        /\ imagesSet' = FALSE

RoomToRender == Len(assets) < MaxAssets

Dirty ==
    \/ imagesSet
    \/ c.len # Len(images)
    \/ c.index # currentImageIndex
    \/ c.zoom # zoom
    \/ c.loading # isLoading

\* ------------------------------------------------------------- actions
\* React renders the queued updates and runs the effects.
Commit ==
    /\ mounted
    /\ Dirty
    /\ RoomToRender
    /\ Effects(imagesSet, images, currentImageIndex, zoom, isLoading, isPlaying)
    /\ lastEvent' = "commit"
    /\ UNCHANGED <<instancesData, mounted, view, studyUid, isLoading, images, currentImageIndex,
                   isPlaying, zoom, pan, loads>>

\* The parent passes another studyUid: the component re-renders and the effect
\* on [studyUid] calls loadDicomImages, which starts with setIsLoading(true); that
\* update is rendered before any answer of the network can arrive.
StudyChangeWithin(s, cap) ==
    /\ mounted
    /\ s # studyUid
    /\ Len(loads) < cap
    /\ studyUid' = s
    /\ loads' = Append(loads, [study |-> s, phase |-> "series"])
    /\ isLoading' = TRUE
    /\ Effects(imagesSet, images, currentImageIndex, zoom, TRUE, isPlaying)
    /\ lastEvent' = "study"
    /\ UNCHANGED <<instancesData, mounted, view, images, currentImageIndex, isPlaying, zoom, pan>>

\* at most MaxLoads calls of loadDicomImages in flight
StudyChange(s) == StudyChangeWithin(s, MaxLoads)

\* catch (error) { console.error(...); setIsLoading(false) }: the call of
\* loadDicomImages ends, nothing issues the fetch again.
LoadFailedRetry(ls, i) == [ls EXCEPT ![i].phase = "series"]

LoadFailed(ls, i) == RemoveAt(ls, i)

\* The series fetch answers: a non-empty list, an empty list (throw new
\* Error('No series found')) or a failure (fetch rejects, json() rejects,
\* seriesData[0]['0020000E'] is missing).  The catch block calls setIsLoading(false).
SeriesFetched(i, outcome) ==
    /\ i \in 1..Len(loads)
    /\ loads[i].phase = "series"
    /\ IF outcome = "ok"
       THEN /\ loads' = [loads EXCEPT ![i].phase = "metadata"]
            /\ lastEvent' = "seriesOk"
            /\ UNCHANGED isLoading
       ELSE /\ loads' = LoadFailed(loads, i)
            /\ lastEvent' = IF outcome = "empty" THEN "loadEmpty" ELSE "loadFail"
            /\ isLoading' = IF mounted THEN FALSE ELSE isLoading
    /\ UNCHANGED <<instancesData, mounted, view, studyUid, images, currentImageIndex, isPlaying, zoom,
                   pan, timers, assets, surface, c, imagesSet>>

\* The metadata fetch fails: the catch block calls setIsLoading(false).
MetadataFailed(i) ==
    /\ i \in 1..Len(loads)
    /\ loads[i].phase = "metadata"
    /\ loads' = LoadFailed(loads, i)
    /\ isLoading' = IF mounted THEN FALSE ELSE isLoading
    /\ lastEvent' = "loadFail"
    /\ UNCHANGED <<instancesData, mounted, view, studyUid, images, currentImageIndex, isPlaying, zoom,
                   pan, timers, assets, surface, c, imagesSet>>

\* The metadata fetch answers with the instance records data: map, sort, setImages,
\* setCurrentImageIndex(Math.floor(length / 2)), setIsLoading(false).
MetadataFetched(i, data) ==
    /\ i \in 1..Len(loads)
    /\ loads[i].phase = "metadata"
    /\ loads' = RemoveAt(loads, i)
    /\ lastEvent' = "loadOk"
    /\ IF mounted
       THEN LET dicomImages == SortByInstanceNumber(MapInstances(loads[i].study, data))
            IN  /\ images' = dicomImages
                /\ currentImageIndex' = MiddleIndex(Len(dicomImages))
                /\ isLoading' = FALSE
                /\ imagesSet' = TRUE
                /\ instancesData' = data
       ELSE UNCHANGED <<images, currentImageIndex, isLoading, imagesSet, instancesData>>
    /\ UNCHANGED <<mounted, view, studyUid, isPlaying, zoom, pan, timers, assets,
                   surface, c>>

\* A fetch never settles (the server keeps the connection open and sends nothing):
\* fetch is called without a signal and nothing races it against a timer, so the
\* await never returns and neither the try nor the catch block goes on.
FetchHangs(i) ==
    /\ i \in 1..Len(loads)
    /\ loads[i].phase \in {"series", "metadata"}
    /\ loads' = [loads EXCEPT ![i].phase = "hung"]
    /\ UNCHANGED <<instancesData, mounted, view, studyUid, isLoading, images,
                   currentImageIndex, isPlaying, zoom, pan, timers, assets, surface, c,
                   imagesSet, lastEvent>>

\* handleWheel with e.ctrlKey: delta is -1 for deltaY > 0, else 1.
HandleWheelZoom(delta) ==
    /\ mounted
    /\ CanvasShown
    /\ zoom' = ZoomStep(zoom, delta)
    /\ lastEvent' = IF delta > 0 THEN "zoomIn" ELSE "zoomOut"
    /\ UNCHANGED <<instancesData, mounted, view, studyUid, isLoading, images, currentImageIndex,
                   isPlaying, pan, loads, timers, assets, surface, c, imagesSet>>

\* handleWheel without ctrl: nothing happens unless images.length > 1.
HandleWheelScrub(delta) ==
    /\ mounted
    /\ CanvasShown
    /\ currentImageIndex' =
          IF c.len > 1 THEN ScrubStep(currentImageIndex, delta, c.len)
          ELSE currentImageIndex
    /\ lastEvent' = "scrub"
    /\ UNCHANGED <<instancesData, mounted, view, studyUid, isLoading, images, isPlaying, zoom, pan,
                   loads, timers, assets, surface, c, imagesSet>>

\* handleWheel as a whole: e.ctrlKey chooses the branch before any setter is called.
HandleWheelBoth(ctrlKey, delta) ==
    /\ mounted
    /\ CanvasShown
    /\ zoom' = ZoomStep(zoom, delta)
    /\ currentImageIndex' =
          IF c.len > 1 THEN ScrubStep(currentImageIndex, delta, c.len)
          ELSE currentImageIndex
    /\ lastEvent' = IF ctrlKey THEN "wheelCtrl" ELSE "wheel"
    /\ UNCHANGED <<instancesData, mounted, view, studyUid, isLoading, images, isPlaying, pan, loads,
                   timers, assets, surface, c, imagesSet>>

HandleWheel(ctrlKey, delta) ==
    /\ mounted
    /\ CanvasShown
    /\ IF ctrlKey
       THEN /\ zoom' = ZoomStep(zoom, delta)
            /\ UNCHANGED currentImageIndex
       ELSE /\ currentImageIndex' =
                  IF c.len > 1 THEN ScrubStep(currentImageIndex, delta, c.len)
                  ELSE currentImageIndex
            /\ UNCHANGED zoom
    /\ lastEvent' = IF ctrlKey THEN "wheelCtrl" ELSE "wheel"
    /\ UNCHANGED <<instancesData, mounted, view, studyUid, isLoading, images, isPlaying, pan, loads,
                   timers, assets, surface, c, imagesSet>>

\* The range input (min 0, max images.length - 1) reports value v.
SliderChange(v) ==
    /\ mounted
    /\ CanvasShown
    /\ ControlsShown
    /\ v \in 0..(c.len - 1)
    /\ RoomToRender
    /\ currentImageIndex' = v
    /\ Effects(imagesSet, images, v, zoom, isLoading, isPlaying)
    /\ lastEvent' = "slider"
    /\ UNCHANGED <<instancesData, mounted, view, studyUid, isLoading, images, isPlaying, zoom, pan,
                   loads>>

\* Click on the play/pause button.
TogglePlay ==
    /\ mounted
    /\ ControlsShown
    /\ RoomToRender
    /\ isPlaying' = TogglePlaying(isPlaying)
    /\ Effects(imagesSet, images, currentImageIndex, zoom, isLoading,
               TogglePlaying(isPlaying))
    /\ lastEvent' = IF ~isPlaying THEN "play"
                    ELSE IF lastEvent = "play" THEN "pauseNoTick" ELSE "pause"
    /\ UNCHANGED <<instancesData, mounted, view, studyUid, isLoading, images, currentImageIndex,
                   zoom, pan, loads>>

\* An interval fires.
Tick(t) ==
    /\ t \in 1..Len(timers)
    /\ currentImageIndex' = IF mounted THEN NextFrame(currentImageIndex, timers[t])
                            ELSE currentImageIndex
    /\ lastEvent' = "tick"
    /\ UNCHANGED <<instancesData, mounted, view, studyUid, isLoading, images, isPlaying, zoom, pan,
                   loads, timers, assets, surface, c, imagesSet>>

\* img.onload: draw the image (and the crosshair) on the canvas the render captured.
AssetLoaded(a) ==
    /\ a \in 1..Len(assets)
    /\ assets' = RemoveAt(assets, a)
    /\ surface' = IF assets[a].live THEN Drawn(assets[a].img) ELSE surface
    /\ lastEvent' = "assetOk"
    /\ UNCHANGED <<instancesData, mounted, view, studyUid, isLoading, images, currentImageIndex,
                   isPlaying, zoom, pan, loads, timers, c, imagesSet>>

\* img.onerror: draw the text placeholder.
AssetFailedFatal(a) ==
    /\ a \in 1..Len(assets)
    /\ assets' = RemoveAt(assets, a)
    /\ surface' = IF assets[a].live THEN Placeholder ELSE surface
    /\ images' = <<>>
    /\ currentImageIndex' = 0
    /\ isPlaying' = FALSE
    /\ imagesSet' = TRUE
    /\ lastEvent' = "assetErr"
    /\ UNCHANGED <<instancesData, mounted, view, studyUid, isLoading, zoom, pan, loads, timers, c>>

AssetFailed(a) ==
    /\ a \in 1..Len(assets)
    /\ assets' = RemoveAt(assets, a)
    /\ surface' = IF assets[a].live THEN Placeholder ELSE surface
    /\ lastEvent' = "assetErr"
    /\ UNCHANGED <<instancesData, mounted, view, studyUid, isLoading, images, currentImageIndex,
                   isPlaying, zoom, pan, loads, timers, c, imagesSet>>

\* The Viewport is removed: the cleanup of the playback effect runs.  Nothing
\* cancels the fetches or the image loads in flight: their continuations still run,
\* the canvas element they captured has only left the document.
UnmountedTimersKept(ts) == ts

UnmountedTimers(ts) == <<>>

Unmount ==
    /\ mounted
    /\ mounted' = FALSE
    /\ timers' = UnmountedTimers(timers)
    /\ lastEvent' = "unmount"
    /\ UNCHANGED <<instancesData, view, studyUid, isLoading, images, currentImageIndex, isPlaying,
                   zoom, pan, loads, assets, surface, c, imagesSet>>

\* ------------------------------------------- FileUploader and Index page
\* type: (uploadedFiles.length + index === 0 ? 'image' : 'mask'), index 0-based,
\* uploadedFiles.length the one of the closure
TypeOfNew(held, index) == IF held + index = 0 THEN "image" ELSE "mask"

NewFiles(held, k) == [i \in 1..k |-> TypeOfNew(held, i - 1)]

\* handleFileInput calls the handleFiles of the current render; handleDrop is a
\* useCallback with no dependencies and calls the handleFiles of the first render
\* of the mounted uploader, where uploadedFiles is [].
ClosureHeld(via) == IF via = "drop" THEN 0 ELSE Len(uploadedFiles)

\* handleFiles with k files named .nii or .nii.gz among the chosen ones.  The file
\* input is disabled and the drop area takes no pointer events while exactly two
\* files are held.
HandleFiles(via, k) ==
    /\ currentStep = "upload"
    /\ Len(uploadedFiles) # 2
    /\ Len(uploadedFiles) + k <= MaxHeld
    /\ IF k = 0
       THEN /\ uploadEvent' = "alertNii"
            /\ UNCHANGED uploadedFiles
       ELSE IF ClosureHeld(via) + k > 2
       THEN /\ uploadEvent' = "alertCount"
            /\ UNCHANGED uploadedFiles
       ELSE /\ uploadedFiles' = uploadedFiles \o NewFiles(ClosureHeld(via), k)
            /\ uploadEvent' = "add"
    /\ UNCHANGED <<currentStep, studyId, radiographyType, isUploading, uploadProgress,
                   uploads, progressTimers>>

\* removeFile(id) for the file at place i
RemoveFile(i) ==
    /\ currentStep = "upload"
    /\ i \in 1..Len(uploadedFiles)
    /\ uploadedFiles' = RemoveAt(uploadedFiles, i)
    /\ uploadEvent' = "remove"
    /\ UNCHANGED <<currentStep, studyId, radiographyType, isUploading, uploadProgress,
                   uploads, progressTimers>>

\* changeFileType(id, newType) for the file at place i
ChangeFileType(i, t) ==
    /\ currentStep = "upload"
    /\ i \in 1..Len(uploadedFiles)
    /\ uploadedFiles' = [uploadedFiles EXCEPT ![i] = t]
    /\ uploadEvent' = "retag"
    /\ UNCHANGED <<currentStep, studyId, radiographyType, isUploading, uploadProgress,
                   uploads, progressTimers>>

\* <Select value={radiographyType} onValueChange={setRadiographyType}>
SetRadiographyType(t) ==
    /\ currentStep = "upload"
    /\ radiographyType' = t
    /\ uploadEvent' = "type"
    /\ UNCHANGED <<currentStep, studyId, uploadedFiles, isUploading, uploadProgress,
                   uploads, progressTimers>>

\* const canUpload = uploadedFiles.length === 2 && radiographyType && !isUploading
CanUploadWhileUploading == Len(uploadedFiles) = 2 /\ radiographyType # ""

CanUpload == Len(uploadedFiles) = 2 /\ radiographyType # "" /\ ~isUploading

HasType(files, t) == \E i \in 1..Len(files) : files[i] = t

StartUploadPostsUntagged(files, rtype) == Len(files) = 2 /\ rtype # ""

\* the two early returns of startUpload
StartUploadPosts(files, rtype) ==
    /\ Len(files) = 2
    /\ rtype # ""
    /\ HasType(files, "image")
    /\ HasType(files, "mask")

\* Click on the upload button (disabled unless canUpload): startUpload up to the
\* await of the fetch.
StartUpload ==
    /\ currentStep = "upload"
    /\ CanUpload
    /\ Len(uploads) < MaxUploads
    /\ IF StartUploadPosts(uploadedFiles, radiographyType)
       THEN /\ isUploading' = TRUE
            /\ uploadProgress' = 0
            /\ uploads' = Append(uploads,
                    [phase |-> "posted", study |-> 0, calls |-> 0, live |-> TRUE])
            /\ progressTimers' = Append(progressTimers,
                    [upload |-> Len(uploads) + 1, live |-> TRUE])
            /\ uploadEvent' = "post"
       ELSE /\ uploadEvent' = "alertTags"
            /\ UNCHANGED <<isUploading, uploadProgress, uploads, progressTimers>>
    /\ UNCHANGED <<currentStep, studyId, uploadedFiles, radiographyType>>

\* setUploadProgress(prev => Math.min(prev + Math.random() * 20, 90))
ProgressStep(prev, d) == Min(prev + d, ProgressCap)

\* Math.random() * 20, in [0, 20)
ProgressSteps == {0, 19}

\* A progress interval fires.
ProgressTick(t, d) ==
    /\ t \in 1..Len(progressTimers)
    /\ uploadProgress' = IF progressTimers[t].live
                         THEN ProgressStep(uploadProgress, d) ELSE uploadProgress
    /\ uploadEvent' = "progress"
    /\ UNCHANGED <<currentStep, studyId, uploadedFiles, radiographyType, isUploading,
                   uploads, progressTimers>>

\* clearInterval(progressInterval) of upload j
ClearInterval(ts, j) == SelectSeq(ts, LAMBDA t : t.upload # j)

\* The fetch of upload j settles.  "ok": a 2xx response whose body parses, with
\* study_uid s.  "non2xx": throw new Error('Upload failed').  "badjson":
\* response.json() rejects.  "neterr": the fetch rejects, so the await throws
\* before clearInterval.  The catch block calls setIsUploading(false),
\* setUploadProgress(0) and alert.
UploadAnswered(j, outcome, s) ==
    /\ j \in 1..Len(uploads)
    /\ uploads[j].phase = "posted"
    /\ progressTimers' = IF outcome = "neterr" THEN progressTimers
                         ELSE ClearInterval(progressTimers, j)
    /\ IF outcome = "ok"
       THEN /\ uploads' = [uploads EXCEPT ![j].phase = "timer", ![j].study = s]
            /\ uploadProgress' = IF uploads[j].live THEN ProgressDone ELSE uploadProgress
            /\ uploadEvent' = "answerOk"
            /\ UNCHANGED isUploading
       ELSE /\ uploads' = [uploads EXCEPT ![j].phase = "failed"]
            /\ isUploading' = IF uploads[j].live THEN FALSE ELSE isUploading
            /\ uploadProgress' = IF uploads[j].live THEN 0 ELSE uploadProgress
            /\ uploadEvent' = "failed"
    /\ UNCHANGED <<currentStep, studyId, uploadedFiles, radiographyType>>

HandleUploadCompleteStays(newStudyId) == [step |-> "upload", id |-> newStudyId]

\* handleUploadComplete: setStudyId(newStudyId); setCurrentStep('viewer')
HandleUploadComplete(newStudyId) == [step |-> "viewer", id |-> newStudyId]

Orphan(xs) == [i \in 1..Len(xs) |-> [xs[i] EXCEPT !.live = FALSE]]

\* The setTimeout of upload j fires: setIsUploading(false) and
\* onUploadComplete(result.study_uid, ...).  When the page leaves the upload
\* step the FileUploader is unmounted: its state is gone, and nothing clears the
\* intervals it left running.
UploadTimeout(j) ==
    /\ j \in 1..Len(uploads)
    /\ uploads[j].phase = "timer"
    /\ LET page == HandleUploadComplete(uploads[j].study)
           done == [uploads EXCEPT ![j].phase = "done", ![j].calls = @ + 1]
           leaves == currentStep = "upload" /\ page.step # "upload"
       IN  /\ currentStep' = page.step
           /\ studyId' = page.id
           /\ uploads' = IF leaves THEN Orphan(done) ELSE done
           /\ progressTimers' = IF leaves THEN Orphan(progressTimers) ELSE progressTimers
           /\ isUploading' = IF leaves \/ uploads[j].live THEN FALSE ELSE isUploading
           /\ uploadProgress' = IF leaves THEN 0 ELSE uploadProgress
           /\ uploadedFiles' = IF leaves THEN <<>> ELSE uploadedFiles
           /\ radiographyType' = IF leaves THEN "" ELSE radiographyType
    /\ uploadEvent' = "complete"

\* resetToUpload: setCurrentStep('upload'); setStudyId('').  A new FileUploader
\* is mounted.
ResetToUploadKeepsStudy ==
    /\ currentStep = "viewer"
    /\ currentStep' = "upload"
    /\ uploadEvent' = "reset"
    /\ UNCHANGED <<studyId, uploadedFiles, radiographyType, isUploading, uploadProgress,
                   uploads, progressTimers>>

ResetToUpload ==
    /\ currentStep = "viewer"
    /\ currentStep' = "upload"
    /\ studyId' = 0
    /\ uploadEvent' = "reset"
    /\ UNCHANGED <<uploadedFiles, radiographyType, isUploading, uploadProgress, uploads,
                   progressTimers>>

\* ----------------------------------------------------- backend answers
\* One answer of each length, instance numbers in descending response order.
InstancesOfLen(n) == [i \in 1..n |-> [id |-> i, Value |-> <<n + 1 - i>>]]

Catalogue == {InstancesOfLen(n) : n \in 0..MaxImages}

\* Every answer of up to MaxInstances records, each with or without an instance number.
Values == {<<>>} \cup {<<n>> : n \in 0..MaxInstanceNumber}

AllInstanceLists ==
    UNION {{[i \in 1..n |-> [id |-> i, Value |-> f[i]]] : f \in [1..n -> Values]}
             : n \in 0..MaxInstances}

\* ------------------------------------------- RealDicomViewer, the grid
\* Each Viewport of the grid is the component above, with its own state.  Here a
\* state update is rendered in the step that makes it, so the handlers see the
\* sequence they act on.  frame is what the canvas of the Viewport is given: "image"
\* once a render asked for the current slice, "placeholder" when that image load
\* answered with an error.

PanelInit ==
    [phase |-> "series", isLoading |-> TRUE, images |-> <<>>, currentImageIndex |-> 0,
     isPlaying |-> FALSE, zoom |-> DefaultZoom, pan |-> <<0, 0>>, timers |-> <<>>,
     frame |-> "none"]

\* the playback effect of the Viewport of view v
PanelTimers(v, playing, len) == IF playing /\ v # "3d" /\ len > 1 THEN <<len>> ELSE <<>>

PanelControlsShown(v, p) == v # "3d" /\ Len(p.images) > 1

\* the render effect and renderCurrentImage, for a viewport that is not loading
PanelFrame(p) == IF Len(p.images) > 0 THEN "image" ELSE "blank"

SharedUpdate(ps, v, new) == [w \in DOMAIN ps |-> new]

\* the useState hooks belong to the instance of Viewport
OwnUpdate(ps, v, new) == [ps EXCEPT ![v] = new]

SelectResetsOthers(ps, id) ==
    [w \in DOMAIN ps |->
        IF w = id THEN ps[w] ELSE [ps[w] EXCEPT !.isPlaying = FALSE, !.timers = <<>>]]

\* The grid renders again with another isActive: title, studyUid and view of each
\* Viewport are the same, so no effect of a Viewport runs.
AfterSelect(ps, id) == ps

\* onClick={() => setActiveViewport(viewport.id)}, on the Card of a Viewport
SelectViewport(id) ==
    /\ activeViewport' = id
    /\ panels' = AfterSelect(panels, id)

PanelFailed(p) == [p EXCEPT !.phase = "idle", !.isLoading = FALSE, !.frame = "blank"]

PanelSeriesFetched(v, outcome) ==
    /\ panels[v].phase = "series"
    /\ panels' = OwnUpdate(panels, v,
          IF outcome = "ok" THEN [panels[v] EXCEPT !.phase = "metadata"]
          ELSE PanelFailed(panels[v]))
    /\ UNCHANGED activeViewport

PanelMetadataFailed(v) ==
    /\ panels[v].phase = "metadata"
    /\ panels' = OwnUpdate(panels, v, PanelFailed(panels[v]))
    /\ UNCHANGED activeViewport

PanelMetadataFetched(v) ==
    /\ panels[v].phase = "metadata"
    /\ LET dicomImages == SortByInstanceNumber(MapInstances(1, InstancesOfLen(GridImages)))
           loaded == [panels[v] EXCEPT !.phase = "idle", !.isLoading = FALSE,
                         !.images = dicomImages,
                         !.currentImageIndex = MiddleIndex(Len(dicomImages)),
                         !.timers = PanelTimers(v, panels[v].isPlaying, Len(dicomImages))]
       IN  panels' = OwnUpdate(panels, v, [loaded EXCEPT !.frame = PanelFrame(loaded)])
    /\ UNCHANGED activeViewport

\* the other viewports that are zoomed, or show a placeholder
OthersZoomed(v) == {w \in GridViews \ {v} : panels[w].zoom # DefaultZoom}

OthersFailed(v) == {w \in GridViews \ {v} : panels[w].frame = "placeholder"}

PanelWheelZoom(v, delta) ==
    /\ ~panels[v].isLoading
    /\ Cardinality(OthersZoomed(v)) < MaxZoomed
    /\ ZoomStep(panels[v].zoom, delta) \in DefaultZoom..(DefaultZoom + GridZoomSpan)
    /\ LET zoomed == [panels[v] EXCEPT !.zoom = ZoomStep(@, delta)]
       IN  panels' = OwnUpdate(panels, v, [zoomed EXCEPT !.frame = PanelFrame(zoomed)])
    /\ UNCHANGED activeViewport

\* a panel whose index moved is drawn again
PanelAt(p, index) ==
    IF index = p.currentImageIndex THEN p
    ELSE [p EXCEPT !.currentImageIndex = index, !.frame = "image"]

PanelWheelScrub(v, delta) ==
    /\ ~panels[v].isLoading
    /\ Len(panels[v].images) > 1
    /\ panels' = OwnUpdate(panels, v,
          PanelAt(panels[v],
                  ScrubStep(panels[v].currentImageIndex, delta, Len(panels[v].images))))
    /\ UNCHANGED activeViewport

PanelSliderChange(v, value) ==
    /\ ~panels[v].isLoading
    /\ PanelControlsShown(v, panels[v])
    /\ value \in 0..(Len(panels[v].images) - 1)
    /\ panels' = OwnUpdate(panels, v, PanelAt(panels[v], value))
    /\ UNCHANGED activeViewport

PanelTogglePlay(v) ==
    /\ PanelControlsShown(v, panels[v])
    /\ panels' = OwnUpdate(panels, v,
          [panels[v] EXCEPT !.isPlaying = TogglePlaying(@),
              !.timers = PanelTimers(v, TogglePlaying(panels[v].isPlaying),
                                     Len(panels[v].images))])
    /\ UNCHANGED activeViewport

PanelTick(v) ==
    /\ panels[v].timers # <<>>
    /\ panels' = OwnUpdate(panels, v,
          PanelAt(panels[v],
                  NextFrame(panels[v].currentImageIndex, panels[v].timers[1])))
    /\ UNCHANGED activeViewport

\* img.onerror of the image load of the last render of Viewport v
PanelAssetFailed(v) ==
    /\ panels[v].frame = "image"
    /\ Cardinality(OthersFailed(v)) < MaxPlaceholders
    /\ panels' = OwnUpdate(panels, v, [panels[v] EXCEPT !.frame = "placeholder"])
    /\ UNCHANGED activeViewport

\* ------------------------------- the simulated Viewport (FileUploader.tsx)
\* useState(true), useState(50), useState(false); interval: the playback
\* interval of the effect on [isPlaying, view] is set
SimViewportInit ==
    [isLoading |-> TRUE, sliceIndex |-> InitialSlice, isPlaying |-> FALSE,
     interval |-> FALSE]

\* setSliceIndex(prev => (prev + 1) % 100)
SimNextSliceUnbounded(prev) == prev + 1

SimNextSlice(prev) == (prev + 1) % SliceCount

\* handleSliceChange: setSliceIndex(prev => Math.max(0, Math.min(99, prev + delta)))
HandleSliceChange(prev, delta) == Max(0, Min(LastSlice, prev + delta))

\* if (isPlaying && view !== '3d') setInterval(...); the cleanup clears it
SimPlaybackEffect(v, playing) == playing /\ v # "3d"

\* setTimeout(() => setIsLoading(false), 1000 + Math.random() * 1000) fires
SimLoaded(v) ==
    /\ simViewports[v].isLoading
    /\ simViewports' = [simViewports EXCEPT ![v].isLoading = FALSE]
    /\ simEvent' = "loaded"

\* Click on the play/pause button, rendered when view !== '3d'
SimTogglePlay(v) ==
    /\ v # "3d"
    /\ simViewports' = [simViewports EXCEPT
            ![v].isPlaying = ~simViewports[v].isPlaying,
            ![v].interval = SimPlaybackEffect(v, ~simViewports[v].isPlaying)]
    /\ simEvent' = "play"

\* The playback interval fires.
SimTick(v) ==
    /\ simViewports[v].interval
    /\ simViewports' = [simViewports EXCEPT
            ![v].sliceIndex = SimNextSlice(simViewports[v].sliceIndex)]
    /\ simEvent' = "tick"

\* The range input (min 0, max 99), rendered when loaded and view !== '3d'
SimSliderChange(v, value) ==
    /\ v # "3d"
    /\ ~simViewports[v].isLoading
    /\ value \in 0..LastSlice
    /\ simViewports' = [simViewports EXCEPT ![v].sliceIndex = value]
    /\ simEvent' = "slider"

\* handleSliceChange(delta): no element of the component calls it
SimSliceChange(v, delta) ==
    /\ simViewports' = [simViewports EXCEPT
            ![v].sliceIndex = HandleSliceChange(simViewports[v].sliceIndex, delta)]
    /\ simEvent' = "slice"

\* ------------------------------------------------------- specifications
InitSim ==
    /\ simViewports = [v \in GridViews |-> SimViewportInit]
    /\ simEvent = "mount"

InitUploader ==
    /\ currentStep = "upload"
    /\ studyId = 0
    /\ uploadedFiles = <<>>
    /\ radiographyType = ""
    /\ isUploading = FALSE
    /\ uploadProgress = 0
    /\ uploads = <<>>
    /\ progressTimers = <<>>
    /\ uploadEvent = "mount"

InitGrid ==
    /\ activeViewport = "axial"
    /\ panels = [v \in GridViews |-> PanelInit]

Init ==
    /\ InitUploader
    /\ InitGrid
    /\ InitSim
    /\ mounted = TRUE
    /\ view \in Views
    /\ studyUid = 1
    /\ isLoading = TRUE
    /\ images = <<>>
    /\ currentImageIndex = 0
    /\ isPlaying = FALSE
    /\ zoom = DefaultZoom
    /\ pan = <<0, 0>>
    /\ loads = <<[study |-> 1, phase |-> "series"]>>
    /\ timers = <<>>
    /\ assets = <<>>
    /\ surface = NoSurface
    /\ c = [len |-> 0, index |-> 0, zoom |-> DefaultZoom, loading |-> TRUE,
            playing |-> FALSE]
    /\ imagesSet = FALSE
    /\ lastEvent = "mount"
    /\ instancesData = <<>>

\* The step is one of a Viewport, or of the uploader and the page: the other
\* component is not touched.
OnlyViewport == UNCHANGED <<uploadVars, gridVars, simVars>>

OnlyUploader == UNCHANGED <<viewportVars, gridVars, simVars>>

OnlyGrid == UNCHANGED <<viewportVars, uploadVars, simVars>>

OnlySim == UNCHANGED <<viewportVars, uploadVars, gridVars>>

\* An image load in flight answers before anything else happens.
Quiet == assets = <<>>

\* Playback, navigation and loading.
Next ==
    \/ Quiet /\ Commit /\ OnlyViewport
    \/ \E s \in Studies : Quiet /\ StudyChange(s) /\ OnlyViewport
    \/ \E i \in 1..MaxLoads, o \in {"ok", "empty", "fail"} : Quiet /\ SeriesFetched(i, o) /\ OnlyViewport
    \/ \E i \in 1..MaxLoads : Quiet /\ MetadataFailed(i) /\ OnlyViewport
    \/ \E i \in 1..MaxLoads, data \in Catalogue : Quiet /\ MetadataFetched(i, data) /\ OnlyViewport
    \/ \E d \in {-1, 1} : Quiet /\ HandleWheelScrub(d) /\ OnlyViewport
    \/ \E v \in 0..(MaxImages - 1) : Quiet /\ SliderChange(v) /\ OnlyViewport
    \/ Quiet /\ TogglePlay /\ OnlyViewport
    \/ \E t \in 1..Len(timers) : Quiet /\ Tick(t) /\ OnlyViewport
    \/ \E a \in 1..MaxAssets : AssetLoaded(a) /\ OnlyViewport
    \/ \E a \in 1..MaxAssets : AssetFailed(a) /\ OnlyViewport
    \/ Unmount /\ OnlyViewport

Spec == Init /\ [][Next]_vars

\* The render pipeline with overlapping image loads.
NextRender ==
    \/ Commit /\ OnlyViewport
    \/ \E i \in 1..MaxLoads : SeriesFetched(i, "ok") /\ OnlyViewport
    \/ \E i \in 1..MaxLoads, data \in Catalogue : MetadataFetched(i, data) /\ OnlyViewport
    \/ \E d \in {-1, 1} : HandleWheelScrub(d) /\ OnlyViewport
    \/ \E v \in 0..(MaxImages - 1) : SliderChange(v) /\ OnlyViewport
    \/ \E a \in 1..MaxAssets : AssetLoaded(a) /\ OnlyViewport
    \/ \E a \in 1..MaxAssets : AssetFailed(a) /\ OnlyViewport
    \/ Unmount /\ OnlyViewport

SpecRender == Init /\ [][NextRender]_vars

\* The zoom gesture over its whole range.
NextZoom ==
    \/ Quiet /\ Commit /\ OnlyViewport
    \/ \E i \in 1..MaxLoads : Quiet /\ SeriesFetched(i, "ok") /\ OnlyViewport
    \/ \E i \in 1..MaxLoads, data \in Catalogue : Quiet /\ MetadataFetched(i, data) /\ OnlyViewport
    \/ \E d \in {-1, 1} : Quiet /\ HandleWheelZoom(d) /\ OnlyViewport
    \/ \E a \in 1..MaxAssets : AssetLoaded(a) /\ OnlyViewport

SpecZoom == Init /\ [][NextZoom]_vars

\* Both wheel gestures on one loaded sequence, the zoom within WheelZoomSpan steps
\* of the default.
WithinZoomSpan(ctrlKey, d) ==
    ctrlKey => zoom + d \in (DefaultZoom - WheelZoomSpan)..(DefaultZoom + WheelZoomSpan)

NextWheel ==
    \/ Quiet /\ Commit /\ OnlyViewport
    \/ \E i \in 1..MaxLoads : Quiet /\ SeriesFetched(i, "ok") /\ OnlyViewport
    \/ \E i \in 1..MaxLoads, data \in Catalogue : Quiet /\ MetadataFetched(i, data) /\ OnlyViewport
    \/ \E ctrlKey \in BOOLEAN, d \in {-1, 1} :
          Quiet /\ WithinZoomSpan(ctrlKey, d) /\ HandleWheel(ctrlKey, d) /\ OnlyViewport
    \/ \E a \in 1..MaxAssets : AssetLoaded(a) /\ OnlyViewport

SpecWheel == Init /\ [][NextWheel]_vars

\* The study changes while loads are in flight: up to MaxOverlap calls of
\* loadDicomImages await their fetches, and answer in any order.
NextSwitch ==
    \/ Quiet /\ Commit /\ OnlyViewport
    \/ \E s \in Studies : Quiet /\ StudyChangeWithin(s, MaxOverlap) /\ OnlyViewport
    \/ \E i \in 1..MaxOverlap, o \in {"ok", "empty", "fail"} : Quiet /\ SeriesFetched(i, o) /\ OnlyViewport
    \/ \E i \in 1..MaxOverlap : Quiet /\ MetadataFailed(i) /\ OnlyViewport
    \/ \E i \in 1..MaxOverlap, data \in Catalogue : Quiet /\ MetadataFetched(i, data) /\ OnlyViewport
    \/ \E a \in 1..MaxAssets : AssetLoaded(a) /\ OnlyViewport

SpecSwitch == Init /\ [][NextSwitch]_vars

\* One load whose fetches answer or hang.  React renders every queued update, a
\* fetch that has not hung gets its answer, an image load gets its answer.
FetchSettles ==
    \/ \E i \in 1..MaxLoads, o \in {"ok", "empty", "fail"} : Quiet /\ SeriesFetched(i, o) /\ OnlyViewport
    \/ \E i \in 1..MaxLoads : Quiet /\ MetadataFailed(i) /\ OnlyViewport
    \/ \E i \in 1..MaxLoads, data \in Catalogue : Quiet /\ MetadataFetched(i, data) /\ OnlyViewport

NextHang ==
    \/ Quiet /\ Commit /\ OnlyViewport
    \/ \E s \in Studies : Quiet /\ StudyChange(s) /\ OnlyViewport
    \/ FetchSettles
    \/ \E i \in 1..MaxLoads : Quiet /\ FetchHangs(i) /\ OnlyViewport
    \/ \E a \in 1..MaxAssets : AssetLoaded(a) /\ OnlyViewport

SpecHang ==
    /\ Init
    /\ [][NextHang]_vars
    /\ WF_vars(Quiet /\ Commit /\ OnlyViewport)
    /\ WF_vars(FetchSettles)
    /\ WF_vars(\E a \in 1..MaxAssets : AssetLoaded(a) /\ OnlyViewport)

\* loadDicomImages over every answer of the metadata backend.
NextLoad ==
    \/ Quiet /\ Commit /\ OnlyViewport
    \/ \E i \in 1..MaxLoads, o \in {"ok", "empty", "fail"} : Quiet /\ SeriesFetched(i, o) /\ OnlyViewport
    \/ \E i \in 1..MaxLoads : Quiet /\ MetadataFailed(i) /\ OnlyViewport
    \/ \E i \in 1..MaxLoads, data \in AllInstanceLists : Quiet /\ MetadataFetched(i, data) /\ OnlyViewport
    \/ \E a \in 1..MaxAssets : AssetLoaded(a) /\ OnlyViewport

SpecLoad == Init /\ [][NextLoad]_vars

\* The upload form and the page around it.
NextUpload ==
    \/ \E via \in {"input", "drop"}, k \in 0..MaxPick : HandleFiles(via, k) /\ OnlyUploader
    \/ \E i \in 1..MaxHeld : RemoveFile(i) /\ OnlyUploader
    \/ \E i \in 1..MaxHeld, t \in FileTypes : ChangeFileType(i, t) /\ OnlyUploader
    \/ \E t \in RadiographyTypes : SetRadiographyType(t) /\ OnlyUploader
    \/ StartUpload /\ OnlyUploader
    \/ \E t \in 1..MaxUploads, d \in ProgressSteps : ProgressTick(t, d) /\ OnlyUploader
    \/ \E j \in 1..MaxUploads, o \in {"ok", "non2xx", "badjson", "neterr"},
          s \in Studies : UploadAnswered(j, o, s) /\ OnlyUploader
    \/ \E j \in 1..MaxUploads : UploadTimeout(j) /\ OnlyUploader
    \/ ResetToUpload /\ OnlyUploader

SpecUpload == Init /\ [][NextUpload]_vars

\* The timer set by setTimeout(..., 500) fires.
SpecUploadLive ==
    /\ Init
    /\ [][NextUpload]_vars
    /\ WF_vars(\E j \in 1..MaxUploads : UploadTimeout(j) /\ OnlyUploader)

\* The four Viewports of one RealDicomViewer, all given the same studyUid.
NextGrid ==
    \/ \E id \in GridViews : SelectViewport(id) /\ OnlyGrid
    \/ \E v \in GridViews, o \in {"ok", "empty", "fail"} :
          PanelSeriesFetched(v, o) /\ OnlyGrid
    \/ \E v \in GridViews : PanelMetadataFailed(v) /\ OnlyGrid
    \/ \E v \in GridViews : PanelMetadataFetched(v) /\ OnlyGrid
    \/ \E v \in GridViews, d \in {-1, 1} : PanelWheelZoom(v, d) /\ OnlyGrid
    \/ \E v \in GridViews, d \in {-1, 1} : PanelWheelScrub(v, d) /\ OnlyGrid
    \/ \E v \in GridViews, i \in 0..(GridImages - 1) : PanelSliderChange(v, i) /\ OnlyGrid
    \/ \E v \in GridViews : PanelTogglePlay(v) /\ OnlyGrid
    \/ \E v \in GridViews : PanelTick(v) /\ OnlyGrid
    \/ \E v \in GridViews : PanelAssetFailed(v) /\ OnlyGrid

\* the single Viewport above is not part of the grid: it stays as mounted
InitGridOnly == Init /\ view = "axial"

SpecGrid == InitGridOnly /\ [][NextGrid]_vars

\* Two of the four simulated Viewports act, one with slices and the 3d one;
\* handleSliceChange is exercised on the one with slice navigation.
NextSim ==
    \/ \E v \in SimViews : SimLoaded(v) /\ OnlySim
    \/ \E v \in SimViews : SimTogglePlay(v) /\ OnlySim
    \/ \E v \in SimViews : SimTick(v) /\ OnlySim
    \/ \E v \in SimViews, value \in 0..LastSlice : SimSliderChange(v, value) /\ OnlySim
    \/ \E v \in SimViews \ {"3d"}, d \in {-1, 1} : SimSliceChange(v, d) /\ OnlySim

\* the single Viewport above is not part of the simulated viewer
InitSimOnly == Init /\ view = "axial"

SpecSim == InitSimOnly /\ [][NextSim]_vars

\* ------------------------------------------------------------ properties
InRange == currentImageIndex \in 0..(Len(images) - 1)

\* the component shows exactly its state: no update is waiting for a render
Rendered == mounted /\ ~Dirty

\* the stored sequence was loaded for the study the viewport is given now
SequenceOfCurrentStudy == images # <<>> /\ images[1].study = studyUid

\* C1: whenever the rendered viewport holds a sequence of length >= 1,
\* currentImageIndex is in [0, len(images) - 1].
C1_IndexInRange == (Rendered /\ Len(images) >= 1) => InRange

\* C2: every tick of the playback timer sets currentImageIndex to
\* (currentImageIndex + 1) mod len(images).
C2_TickAdvancesModLen ==
    [][(lastEvent' = "tick" /\ Len(images) >= 1)
          => currentImageIndex' = (currentImageIndex + 1) % Len(images)]_vars

\* C3: the change of studyUid stops the playback timer: right after the switch no
\* interval is left that could advance currentImageIndex over the old sequence.
C3_TimerStoppedAtSwitch == [][studyUid' # studyUid => timers' = <<>>]_vars

\* C4: once every image load in flight has answered, the canvas shows the slice
\* of the latest sequence and index, whatever order the loads answered in.
C4_SurfaceShowsLatest ==
    (Rendered /\ assets = <<>> /\ ~isLoading /\ Len(images) >= 1 /\ InRange
        /\ surface.kind = "image")
    => surface.img = images[currentImageIndex + 1]

\* C5: a viewport never has more than one active playback interval.
C5_AtMostOneTimer == Len(timers) <= 1

\* C5 witness: playback went on over a reload that changed the length, so the
\* effect replaced the interval of length 3 by one of length 2.
C5_TimerRestarted ==
    /\ isPlaying
    /\ lastEvent = "commit"
    /\ timers = <<2>>
    /\ Len(images) = 2

\* C6: after the unmount no timer is left and no answer of a fetch or of an image
\* load changes images, currentImageIndex, isLoading or the canvas.
C6_NothingAfterUnmount ==
    /\ [](~mounted => timers = <<>>)
    /\ [][~mounted => UNCHANGED <<images, currentImageIndex, isLoading, surface>>]_vars

\* C7: play then pause with no tick in between: neither click moves
\* currentImageIndex, and after the pause no interval is left to tick, as
\* whenever the viewport is not playing.
C7_PlayPauseLeavesIndex ==
    /\ [][lastEvent' \in {"play", "pause", "pauseNoTick"}
            => currentImageIndex' = currentImageIndex]_vars
    /\ [](lastEvent = "pauseNoTick" => ~isPlaying)
    /\ [](~isPlaying => timers = <<>>)

\* C7 witness: pause directly after play on a 3-slice sequence.
C7_PausedBeforeTick ==
    /\ lastEvent = "pauseNoTick"
    /\ ~isPlaying
    /\ timers = <<>>
    /\ Len(images) = 3

\* C8: zoom stays within [0.1, 5.0]; a ctrl-wheel step adds or takes 0.1 and
\* clamps, so a step at a bound leaves zoom at the bound.
C8_ZoomClamped ==
    /\ [](zoom \in ZoomMin..ZoomMax)
    /\ [][lastEvent' = "zoomIn"
            => zoom' = IF zoom + 1 > ZoomMax THEN ZoomMax ELSE zoom + 1]_vars
    /\ [][lastEvent' = "zoomOut"
            => zoom' = IF zoom - 1 < ZoomMin THEN ZoomMin ELSE zoom - 1]_vars

\* C8 witness: a zoom-in step that ends at the upper bound, with the upper bound
\* already rendered before it.
C8_ZoomInAtMax ==
    /\ lastEvent = "zoomIn"
    /\ zoom = ZoomMax
    /\ c.zoom = ZoomMax

Ascending(s) == \A i \in 1..(Len(s) - 1) : s[i].instanceNumber <= s[i + 1].instanceNumber

\* imageId is the record's place in the answer
TiesInResponseOrder(s) ==
    \A i \in 1..(Len(s) - 1) :
        s[i].instanceNumber = s[i + 1].instanceNumber => s[i].imageId < s[i + 1].imageId

\* C9, as claimed: the stored sequence is strictly ascending by instanceNumber.
C9_StrictlyAscending ==
    \A i \in 1..(Len(images) - 1) :
        images[i].instanceNumber < images[i + 1].instanceNumber

\* C9, amended: the stored sequence is ascending by instanceNumber, records with
\* equal instance numbers in the order of the answer.
C9_AscendingStable == Ascending(images) /\ TiesInResponseOrder(images)

\* C9 witness: a stored sequence of three whose first record was not the first of
\* the answer, and which holds a tie.
C9_SortedWithTie ==
    /\ lastEvent = "loadOk"
    /\ Len(images) = 3
    /\ images[1].imageId # 1
    /\ images[2].instanceNumber = images[3].instanceNumber

\* C10: right after a successful load of n records currentImageIndex is floor(n / 2).
C10_StartsInMiddle ==
    (mounted /\ lastEvent = "loadOk") => currentImageIndex = Len(images) \div 2

\* C10 witness: a reload of three records over a viewport rendered at index 2.
C10_ReloadedToMiddle ==
    /\ mounted
    /\ lastEvent = "loadOk"
    /\ Len(images) = 3
    /\ currentImageIndex = 1
    /\ c.index = 2

\* C11, as claimed: when the series fetch answers with an empty list the viewport
\* ends with isLoading false, an empty sequence, no metadata fetch and no playback
\* controls.
C11_EmptySeriesEndsEmpty ==
    (mounted /\ lastEvent = "loadEmpty")
    => /\ ~isLoading
       /\ loads = <<>>
       /\ images = <<>>
       /\ ~(view # "3d" /\ Len(images) > 1)

\* C12, as claimed: when a load of the current study fails the viewport ends in
\* the empty state: not loading and holding no sequence to display or navigate.
C12_FailedLoadEndsEmpty ==
    (mounted /\ lastEvent = "loadFail") => (~isLoading /\ images = <<>>)

C19_NoPlaybackWithoutSequence ==
    /\ [][(view = "3d" \/ Len(images) <= 1) => (isPlaying' => isPlaying)]_vars
    /\ [][(lastEvent' = "tick" /\ (view = "3d" \/ Len(images) <= 1))
            => currentImageIndex' = currentImageIndex]_vars

\* C20, as claimed: the change of studyUid puts zoom, pan and isPlaying back to
\* their defaults.
C20_ResetAtSwitch ==
    [][studyUid' # studyUid
         => (zoom' = DefaultZoom /\ pan' = <<0, 0>> /\ ~isPlaying')]_vars

\* C14: once the upload answered 2xx with study_uid s, the page eventually is in
\* the viewer step with studyId = s, and onUploadComplete is called exactly once
\* for the upload: never twice, and once when the upload is done.
C14_SuccessLeadsToViewer ==
    /\ \A j \in 1..MaxUploads, s \in Studies :
          (Len(uploads) >= j /\ uploads[j].phase = "timer" /\ uploads[j].study = s)
          ~> (currentStep = "viewer" /\ studyId = s)
    /\ [](\A j \in 1..Len(uploads) :
             /\ uploads[j].calls <= 1
             /\ uploads[j].calls = 1 <=> uploads[j].phase = "done")
    /\ [][uploadEvent' = "complete" => (currentStep = "upload" /\ currentStep' = "viewer")]_vars

\* C14 witness: the second upload of the session, after a return from the viewer,
\* has completed with study 2.
C14_SecondUploadShown ==
    /\ uploadEvent = "complete"
    /\ currentStep = "viewer"
    /\ studyId = 2
    /\ Len(uploads) = 2
    /\ uploads[1].phase = "done"
    /\ uploads[2].calls = 1

TwoTagged(files) ==
    /\ Len(files) = 2
    /\ Cardinality({i \in 1..2 : files[i] = "image"}) = 1
    /\ Cardinality({i \in 1..2 : files[i] = "mask"}) = 1

\* C15: a POST is issued only from a state holding exactly two files, one image
\* and one mask, with a radiography type selected; in every other state
\* startUpload issues none, and a refused click leaves isUploading false.
C15_PostNeedsTaggedPair ==
    /\ [][Len(uploads') > Len(uploads)
            => (TwoTagged(uploadedFiles) /\ radiographyType \in RadiographyTypes)]_vars
    /\ [](~(TwoTagged(uploadedFiles) /\ radiographyType \in RadiographyTypes)
            => ~StartUploadPosts(uploadedFiles, radiographyType))
    /\ [][uploadEvent' = "alertTags"
            => (uploads' = uploads /\ progressTimers' = progressTimers /\ ~isUploading')]_vars

\* C15 witness: the button was clicked with two files both tagged image and a
\* type selected; no request was issued.
C15_RefusedTwoImages ==
    /\ uploadEvent = "alertTags"
    /\ uploadedFiles = <<"image", "image">>
    /\ radiographyType = "cbct"
    /\ uploads = <<>>
    /\ ~isUploading

\* C16, as claimed: a failed upload is reported and leaves the page on the upload
\* step with isUploading false, the files and the type as they were and
\* uploadProgress 0, which then stays 0 while no upload is running;
\* onUploadComplete is not called for it.
C16_FailureLeavesCleanForm ==
    /\ [][uploadEvent' = "failed"
            => /\ currentStep' = "upload"
               /\ ~isUploading'
               /\ uploadProgress' = 0
               /\ uploadedFiles' = uploadedFiles
               /\ radiographyType' = radiographyType]_vars
    /\ [](\A j \in 1..Len(uploads) : uploads[j].phase = "failed" => uploads[j].calls = 0)
    /\ []((currentStep = "upload" /\ ~isUploading) => uploadProgress = 0)

\* C17: a step that changes activeViewport changes nothing else: the state of
\* each of the four viewports (images, currentImageIndex, zoom, pan, isPlaying,
\* isLoading, timer, load in flight) is as before, and the selection made is the
\* only way activeViewport changes.
C17_SelectChangesOnlyActive ==
    /\ [][activeViewport' # activeViewport => panels' = panels]_vars
    /\ [](activeViewport \in GridViews)

\* C17 witness: another viewport than the initial one is active while one
\* viewport plays, one is zoomed and one is still loading.
C17_SelectedWhileBusy ==
    /\ activeViewport = "3d"
    /\ panels["axial"].isPlaying
    /\ panels["axial"].timers = <<GridImages>>
    /\ panels["coronal"].zoom # DefaultZoom
    /\ panels["sagittal"].isLoading

\* C18: every step changes the state of at most one viewport, so an event of one
\* viewport leaves the other three as they were; and a viewport whose load failed
\* leaves the others free to load and be navigated (witness).
C18_OneViewportPerStep ==
    [][\A v \in GridViews :
          panels'[v] # panels[v]
          => \A w \in GridViews \ {v} : panels'[w] = panels[w]]_vars

\* C18 witness: the load of the axial viewport failed; the coronal one loaded the
\* sequence, plays and has been moved, the sagittal one is zoomed, the 3d one shows
\* a placeholder.
C18_FailureContained ==
    /\ panels["axial"].phase = "idle"
    /\ panels["axial"].images = <<>>
    /\ Len(panels["coronal"].images) = GridImages
    /\ panels["coronal"].isPlaying
    /\ panels["coronal"].currentImageIndex # MiddleIndex(GridImages)
    /\ panels["sagittal"].zoom # DefaultZoom
    /\ panels["3d"].frame = "placeholder"

\* C21: a failed image load of the current slice changes nothing but the drawn
\* frame, which becomes the placeholder: images, currentImageIndex, zoom, pan and
\* isPlaying are unchanged, the controls and the playback timer stay as they were,
\* and an image load that answers afterwards is still drawn.
C21_FailureOnlyRedraws ==
    [][/\ lastEvent' = "assetErr"
          => /\ UNCHANGED <<images, currentImageIndex, zoom, pan, isPlaying>>
             /\ UNCHANGED <<mounted, isLoading, timers, c, loads>>
             /\ surface' # surface => surface'.kind = "placeholder"
       /\ (lastEvent' = "assetOk" /\ surface.kind = "placeholder" /\ surface' # surface)
          => /\ surface'.kind = "image"
             /\ \E k \in 1..Len(images) : surface'.img = images[k]]_vars

\* the placeholder of a failed slice is on the canvas, playback is still running
\* and its timer has just moved the index to another slice
C21_PlayingPastFailure ==
    /\ surface.kind = "placeholder"
    /\ lastEvent = "tick"
    /\ isPlaying
    /\ timers # <<>>
    /\ InRange
    /\ c.index # currentImageIndex

\* C22: a wheel event is one of two gestures, chosen by ctrlKey alone: with ctrl
\* only zoom may change and currentImageIndex is unchanged, without ctrl only
\* currentImageIndex may change and zoom is unchanged; pan, isPlaying and images
\* are unchanged by both.
C22_WheelIsOneGesture ==
    [][/\ lastEvent' = "wheelCtrl" => UNCHANGED <<currentImageIndex, pan, isPlaying, images>>
       /\ lastEvent' = "wheel" => UNCHANGED <<zoom, pan, isPlaying, images>>]_vars

\* both gestures have acted on the same sequence: the zoom has left its default
\* and the last wheel event, without ctrl, has moved the index off the middle
C22_ZoomedThenScrubbed ==
    /\ lastEvent = "wheel"
    /\ zoom # DefaultZoom
    /\ Len(images) > 1
    /\ currentImageIndex # MiddleIndex(Len(images))
    /\ currentImageIndex # c.index

\* C23: a scrub request on a sequence of length >= 1 sets currentImageIndex to the
\* requested index clamped to [0, len(images) - 1]: a wheel step d in {-1, +1}
\* yields clamp(currentImageIndex + d, 0, len - 1), a slider change to v yields
\* clamp(v, 0, len - 1).
C23_ScrubClamps ==
    [][Len(images) >= 1
          => /\ lastEvent' = "scrub"
                => \E d \in {-1, 1} :
                      currentImageIndex' = Max(0, Min(Len(images) - 1, currentImageIndex + d))
             /\ lastEvent' = "slider" => currentImageIndex' \in 0..(Len(images) - 1)]_vars

\* C24: when the study changed while a load was in flight and all loads have
\* completed, the last one with a result, the stored sequence is the one of the
\* study the viewport is given now: the result of a load for a study that is no
\* longer current is discarded.
C24_CurrentStudyWins ==
    (mounted /\ loads = <<>> /\ lastEvent = "loadOk" /\ images # <<>>)
        => images[1].study = studyUid

\* C25: every stored slice carries the instance number of the record it was mapped
\* from whenever that record has one, 0 included, and the record's position
\* (index + 1) exactly when the record has none.  In the answers of the model the
\* imageId of a record is its position.
C25_InstanceNumberKept ==
    (mounted /\ lastEvent = "loadOk")
        => \A k \in 1..Len(images) :
              LET position == images[k].imageId
                  instance == instancesData[position]
              IN  images[k].instanceNumber =
                     IF instance.Value = <<>> THEN position ELSE instance.Value[1]

\* C26: every load a mounted viewport starts eventually leaves the loading state:
\* isLoading eventually becomes false, also when a fetch hangs and never answers.
C26_LoadingEnds == (mounted /\ isLoading) ~> ~isLoading

\* C27: in every state of a mounted viewport whose effects have run, a playback
\* timer is active if and only if isPlaying is true, the view is not 3d and the
\* sequence has more than one element.
C27_TimerIffPlayable ==
    Rendered => (timers # <<>> <=> (isPlaying /\ view # "3d" /\ Len(images) > 1))

\* isPlaying is still true after a reload that brought a single slice, and the
\* effects have run: no timer is active
C27_PlayingSingleSlice ==
    /\ Rendered
    /\ isPlaying
    /\ Len(images) = 1
    /\ timers = <<>>

\* C28: whenever isPlaying is true in a rendered viewport, the play/pause control
\* is shown (the view is not 3d and the sequence has more than one element), also
\* after a reload that brought 0 or 1 slices or that failed.
C28_PlayingImpliesControl ==
    (Rendered /\ isPlaying) => (view # "3d" /\ Len(images) > 1 /\ ControlsShown)

\* C29: isLoading is true whenever a series or metadata fetch for the current
\* study of the mounted viewport is in flight: the completion of an older load
\* does not set it to false while the load of the current study is pending.
C29_LoadingWhilePending ==
    (mounted /\ \E i \in 1..Len(loads) : loads[i].study = studyUid) => isLoading

\* C30: after any sequence of additions (file input or drag and drop), removals
\* and retaggings the uploader holds at most 2 files.
C30_AtMostTwoFiles == Len(uploadedFiles) <= 2

\* C31: the progress interval of startUpload is cancelled on every exit path of
\* the upload: while isUploading is false no progress timer is active, and at
\* most one progress timer is active at any time.
C31_ProgressTimerCancelled ==
    /\ ~isUploading => progressTimers = <<>>
    /\ Len(progressTimers) <= 1

\* C32: at most one upload request is in flight at any time: from the POST of an
\* upload until its failure, or until its timer has called onUploadComplete, no
\* other upload is started.
InFlight == {j \in 1..Len(uploads) : uploads[j].phase \in {"posted", "timer"}}

C32_OneUploadInFlight ==
    /\ Cardinality(InFlight) <= 1
    /\ InFlight # {} => isUploading

\* a second upload was posted after the first one had failed, and its answer has
\* arrived: it waits for its timer
C32_SecondAttemptInFlight ==
    /\ Len(uploads) = 2
    /\ uploads[1].phase = "failed"
    /\ uploads[2].phase = "timer"
    /\ isUploading

\* C33: the page is in the viewer step only after a successful upload has
\* completed, and studyId is then the study_uid of the most recent such upload;
\* resetToUpload returns to the upload step with studyId cleared to the empty
\* string, so the viewer step is never entered with a studyId from before the reset.
C33_ViewerShowsLastUpload ==
    /\ [](currentStep = "viewer"
             => /\ uploads # <<>>
                /\ uploads[Len(uploads)].phase = "done"
                /\ studyId = uploads[Len(uploads)].study
                /\ studyId \in Studies)
    /\ [](currentStep = "upload" => studyId = 0)
    /\ [][uploadEvent' = "reset" => (currentStep' = "upload" /\ studyId' = 0)]_vars
    /\ [][(currentStep = "upload" /\ currentStep' = "viewer")
             => (uploadEvent' = "complete" /\ studyId = 0)]_vars

\* the first upload gave study 2, the page was reset, and the second upload has
\* brought the page to the viewer with study 1
C33_ViewerAfterReset ==
    /\ currentStep = "viewer"
    /\ Len(uploads) = 2
    /\ uploads[1].phase = "done"
    /\ uploads[1].study = 2
    /\ uploads[2].study = 1
    /\ studyId = 1

\* C34: in every simulated viewport sliceIndex is in [0, 99]: a playback tick sets
\* it to (sliceIndex + 1) mod 100, handleSliceChange sets it to sliceIndex + delta
\* clamped to [0, 99], and the 3d viewport has no playback interval, so no timer
\* advances its sliceIndex.
C34_SliceIndexInRange ==
    /\ [](\A v \in GridViews : simViewports[v].sliceIndex \in 0..99)
    /\ [](~simViewports["3d"].interval /\ ~simViewports["3d"].isPlaying)
    /\ [][simEvent' = "tick"
             => /\ simViewports'["3d"] = simViewports["3d"]
                /\ \E v \in GridViews \ {"3d"} :
                      /\ simViewports'[v].sliceIndex = (simViewports[v].sliceIndex + 1) % 100
                      /\ \A w \in GridViews \ {v} : simViewports'[w] = simViewports[w]]_vars
    /\ [][simEvent' = "slice"
             => \E v \in GridViews, d \in {-1, 1} :
                   LET asked == simViewports[v].sliceIndex + d
                   IN  /\ simViewports'[v].sliceIndex =
                             IF asked < 0 THEN 0 ELSE IF asked > 99 THEN 99 ELSE asked
                       /\ \A w \in GridViews \ {v} : simViewports'[w] = simViewports[w]]_vars

\* the playback interval of the axial viewport has just wrapped from slice 99 to
\* slice 0, while the 3d viewport is loaded and still at its initial slice
C34_TickWrapped ==
    /\ simEvent = "tick"
    /\ simViewports["axial"].isPlaying
    /\ simViewports["axial"].sliceIndex = 0
    /\ ~simViewports["3d"].isLoading
    /\ simViewports["3d"].sliceIndex = InitialSlice

====
